---- MODULE Spec2Model ----
(***************************************************************************)
(* EmbeddedCollection: the ordered, identifier-keyed collection of the     *)
(* child Documents of one parent, kept beside the parent's plain source    *)
(* array (src/types/framework/entities/embeddedEntity.d.ts, l.268-497).    *)
(*                                                                         *)
(* The repository declares the class; the bodies of its methods belong to  *)
(* the host application.  An operator below follows the declaration of the *)
(* member it is named after (signature, documented defaults, documented    *)
(* throws); what a declaration leaves open is taken from spec.md section   *)
(* 4.1 and is marked so in MODEL_MAP.json.                                 *)
(***************************************************************************)
EXTENDS Integers, Sequences, FiniteSets, TLC

\* Number of distinct document identifiers of the model.
NumIds == 2
\* Longest batch handed to update.
MaxBatch == 2
\* Most faces a Card has.
MaxFaces == 3

Ids == 1..NumIds

\* Contents of a record that passes validation, and one that does not.
ValidData == {"x", "y"}
BadData == "bad"

\* A three-valued option: the key left out of the options object, true, false.
Opt == {"omitted", "true", "false"}

VARIABLES
    source,              \* _source: the backing array of plain records
    live,                \* the Collection (a Map): entries in insertion order
    invalidDocumentIds,  \* ids whose source record failed to construct
    initialized,         \* _initialized
    ret                  \* outcome of the last call: value returned, throw, log

\* A Card (src/src/foundry/client/data/documents/card.d.mts).
VARIABLES
    cardFaces,           \* how many faces the card has
    face,                \* the face displayed: an index, or Back
    flipLog              \* the last two flip calls: argument, face before, face after

cardVars == <<cardFaces, face, flipLog>>

\* The flags of an EmbeddedEntity (embeddedEntity.d.ts, l.1-58).
VARIABLES
    flags,               \* data.flags: the value stored under each scope and key
    flagRet              \* the last flag call: its arguments, the value get returned

flagVars == <<flags, flagRet>>

\* The voice-activity data of AVMaster (src/unnamed/part_000).
VARIABLES
    speakingData,        \* _speakingData: per user, speaking and volumeHistories
    avRet                \* the last call: the user, and whether the UI was notified

avVars == <<speakingData, avRet>>

collectionVars == <<source, live, invalidDocumentIds, initialized, ret>>

\* The state of everything but the embedded collection.
otherVars == <<cardVars, flagVars, avVars>>

vars == <<collectionVars, otherVars>>

----------------------------------------------------------------------------
\* Plain records and Map primitives

Keys(seq) == {seq[i].id : i \in DOMAIN seq}

\* Array.find / findSplice: the first element with the identifier.
IndexOf(seq, key) ==
    CHOOSE i \in DOMAIN seq :
        /\ seq[i].id = key
        /\ \A j \in DOMAIN seq : seq[j].id = key => i <= j

Unique(seq) == \A i, j \in DOMAIN seq : seq[i].id = seq[j].id => i = j

\* A Map that puts a new key first.
MapSetFront(m, key, doc) ==
    IF key \in Keys(m) THEN [m EXCEPT ![IndexOf(m, key)] = doc]
    ELSE <<doc>> \o m

\* A Map that moves a key that is set again to the end.
MapSetMove(m, key, doc) == Append(SelectSeq(m, LAMBDA e : e.id # key), doc)

\* Map.prototype.set: a new key goes last, an existing key keeps its place.
MapSet(m, key, doc) ==
    IF key \in Keys(m) THEN [m EXCEPT ![IndexOf(m, key)] = doc]
    ELSE Append(m, doc)

\* Map.prototype.delete
MapDelete(m, key) == SelectSeq(m, LAMBDA e : e.id # key)

\* Map.prototype.get: <<>> stands for undefined.
MapGet(m, key) == IF key \in Keys(m) THEN <<m[IndexOf(m, key)]>> ELSE <<>>

\* A Document's plain record (its _source / toObject()).
ToRecord(doc) == [id |-> doc.id, data |-> doc.data]

\* Whether the Document class can be constructed from a record.
Validates(rec) == rec.data \in ValidData

\* createDocument: a new instance.  gen tells two instances constructed for
\* one identifier apart: the new one differs from the one the Map now holds.
createDocument(m, rec) ==
    [id |-> rec.id,
     gen |-> IF rec.id \in Keys(m) THEN 1 - m[IndexOf(m, rec.id)].gen ELSE 0,
     data |-> rec.data]

NoRet == [op |-> "new", threw |-> FALSE, ok |-> FALSE, log |-> "none", val |-> <<>>]

Ret(op) == [NoRet EXCEPT !.op = op]

----------------------------------------------------------------------------
\* Source arrays with unique identifiers, of every length up to NumIds.
SourceArrays ==
    {s \in UNION {[1..n -> [id : Ids, data : ValidData \cup {BadData}]] : n \in 0..NumIds} :
        Unique(s)}

\* The value of Card's face field while the card shows its back (null).
Back == -1

\* A card of one face lying face down, no flip made.
CardAtRest ==
    /\ cardFaces = 1
    /\ face = Back
    /\ flipLog = <<>>

\* Flag scopes, flag keys and the values stored under them.
FlagScopes == {"core", "world"}
FlagKeys == {"k1", "k2"}
FlagValues == {"a", "b"}

\* null, and what getFlag returns for a flag that is not stored.
Null == "null"
Undefined == "undefined"

FlagPairs == FlagScopes \X FlagKeys

NoFlagRet == [op |-> "new", scope |-> "core", key |-> "k1", val |-> Undefined]

\* An entity that has no flag, no flag call made.
FlagsAtRest ==
    /\ flags = [p \in FlagPairs |-> Undefined]
    /\ flagRet = NoFlagRet

\* The users of the conference.
AVUsers == {"u1", "u2"}

\* How many audio levels the history of a user keeps (last 4 volumes).
HistoryLength == 4

\* The decibel threshold, and audio levels below it, at it and above it.
SpeakingThreshold == -45
Levels == {SpeakingThreshold - 5, SpeakingThreshold, SpeakingThreshold + 5}

\* The entry of a user no audio level was reported for (no key in the object).
NoData == [known |-> FALSE, speaking |-> FALSE, volumeHistories |-> <<>>]

NoAVRet == [op |-> "new", user |-> "u1", notified |-> FALSE]

\* _speakingData as constructed: {}.
AVAtRest ==
    /\ speakingData = [u \in AVUsers |-> NoData]
    /\ avRet = NoAVRet

\* An embedded collection as constructed from an empty source array.
CollectionAtRest ==
    /\ source = <<>>
    /\ live = <<>>
    /\ invalidDocumentIds = {}
    /\ initialized = FALSE
    /\ ret = NoRet

\* The state after the constructor: the source array is kept, nothing is
\* constructed yet.
Init ==
    /\ source \in SourceArrays
    /\ live = <<>>
    /\ invalidDocumentIds = {}
    /\ initialized = FALSE
    /\ ret = NoRet
    /\ CardAtRest
    /\ FlagsAtRest
    /\ AVAtRest

----------------------------------------------------------------------------
\* initialize / _initializeDocument / _handleInvalidDocument

\* Level at which initialize reports an invalid embedded document.
InitLogLevel(strict) == IF strict THEN "error" ELSE "warn"

\* A collection that forgets the id of the document it could not construct.
RecordInvalidDropped(set, id) == set

\* invalidDocumentIds records the id of a document that was not initialized.
RecordInvalid(set, id) == set \cup {id}

\* _initializeDocument on one record of the array, st = [live, invalid, log].
InitializeDocument(st, rec, strict) ==
    IF Validates(rec)
    THEN [st EXCEPT !.live = MapSet(st.live, rec.id, createDocument(st.live, rec))]
    ELSE [st EXCEPT !.invalid = RecordInvalid(st.invalid, rec.id),
                    !.log = InitLogLevel(strict)]

RECURSIVE InitializeFrom(_, _, _, _)
InitializeFrom(st, src, i, strict) ==
    IF i > Len(src) THEN st
    ELSE InitializeFrom(InitializeDocument(st, src[i], strict), src, i + 1, strict)

\* An initialize that builds the collection again on every call.
InitializeRebuild(strict) ==
    /\ LET st == InitializeFrom([live |-> <<>>, invalid |-> {}, log |-> "none"],
                                source, 1, strict)
       IN /\ live' = st.live
          /\ invalidDocumentIds' = st.invalid
          /\ ret' = [Ret("initialize") EXCEPT !.log = st.log]
    /\ initialized' = TRUE
    /\ UNCHANGED source

\* initialize({strict}): a one-time workflow.
Initialize(strict) ==
    /\ IF initialized
       THEN UNCHANGED <<live, invalidDocumentIds>>
            /\ ret' = Ret("initialize")
       ELSE LET st == InitializeFrom([live |-> <<>>, invalid |-> {}, log |-> "none"],
                                     source, 1, strict)
            IN /\ live' = st.live
               /\ invalidDocumentIds' = st.invalid
               /\ ret' = [Ret("initialize") EXCEPT !.log = st.log]
    /\ initialized' = TRUE
    /\ UNCHANGED source

\* A handler that only ever warns.
HandleInvalidOutcomeWarn(strict) == [threw |-> FALSE, log |-> "warn"]

\* _handleInvalidDocument(id, err, {strict}): throw, or only log a warning.
HandleInvalidOutcome(strict) ==
    IF strict THEN [threw |-> TRUE, log |-> "none"]
    ELSE [threw |-> FALSE, log |-> "warn"]

HandleInvalidDocument(id, strict) ==
    /\ initialized
    /\ ret' = [Ret("handleInvalid") EXCEPT !.threw = HandleInvalidOutcome(strict).threw,
                                           !.log = HandleInvalidOutcome(strict).log]
    /\ UNCHANGED <<source, live, invalidDocumentIds, initialized>>

----------------------------------------------------------------------------
\* Options

\* The value of a boolean option, with the default that applies when omitted.
OptValue(opt, default) == IF opt = "omitted" THEN default ELSE opt = "true"

\* set with modifySource defaulting to false.
SetModifySourceOff(opt) == OptValue(opt, FALSE)

\* set that ignores modifySource.
SetModifySourceAlways(opt) == TRUE

\* set: modifySource, @defaultValue true.
SetModifySource(opt) == OptValue(opt, TRUE)

\* delete: modifySource, the same default as set.
DeleteModifySource(opt) == OptValue(opt, TRUE)

\* get with strict defaulting to true.
GetStrictOn(opt) == OptValue(opt, TRUE)

\* get: strict, @defaultValue false.
GetStrict(opt) == OptValue(opt, FALSE)

\* get: invalid, @defaultValue false.
GetAllowInvalid(opt) == OptValue(opt, FALSE)

\* toObject: source, default true.
ToObjectFromSource(opt) == OptValue(opt, TRUE)

----------------------------------------------------------------------------
\* set / _set / delete / _delete

\* _set that always pushes.
SourceSetPush(src, key, value) == Append(src, ToRecord(value))

\* _set that moves the record of an existing identifier to the end.
SourceSetMove(src, key, value) ==
    Append(SelectSeq(src, LAMBDA r : r.id # key), ToRecord(value))

\* _set: modify the underlying source array to include the Document, at the
\* position of the record that has its identifier when there is one.
SourceSet(src, key, value) ==
    IF key \in Keys(src) THEN [src EXCEPT ![IndexOf(src, key)] = ToRecord(value)]
    ELSE Append(src, ToRecord(value))

\* _delete that removes nothing.
SourceDeleteKeep(src, key) == src

\* _delete that splices at the index it found, -1 (the last element) when
\* no record has the identifier.
SourceDeleteLast(src, key) ==
    IF key \in Keys(src) THEN SelectSeq(src, LAMBDA r : r.id # key)
    ELSE IF src = <<>> THEN src ELSE SubSeq(src, 1, Len(src) - 1)

\* _delete: remove the value from the underlying source array.
SourceDelete(src, key) == SelectSeq(src, LAMBDA r : r.id # key)

\* set(key, value, {modifySource}) with value a newly constructed Document
\* whose id is key.
Set(key, data, opt) ==
    LET value == createDocument(live, [id |-> key, data |-> data])
    IN /\ initialized
       /\ source' = IF SetModifySource(opt) THEN SourceSet(source, key, value) ELSE source
       /\ live' = MapSet(live, key, value)
       /\ ret' = Ret("set")
       /\ UNCHANGED <<invalidDocumentIds, initialized>>

\* delete(key, {modifySource}): returns what Map.prototype.delete returns.
Delete(key, opt) ==
    /\ initialized
    /\ source' = IF DeleteModifySource(opt) THEN SourceDelete(source, key) ELSE source
    /\ live' = MapDelete(live, key)
    /\ ret' = [Ret("delete") EXCEPT !.ok = key \in Keys(live)]
    /\ UNCHANGED <<invalidDocumentIds, initialized>>

----------------------------------------------------------------------------
\* update / _createOrUpdate

\* updateSource on the Document the collection holds: the instance stays, its
\* data and the record it has in the source array change.
UpdateSource(st, rec) ==
    LET i == IndexOf(st.live, rec.id)
    IN [live |-> [st.live EXCEPT ![i] = [@ EXCEPT !.data = rec.data]],
        source |-> IF rec.id \in Keys(st.source)
                   THEN [st.source EXCEPT ![IndexOf(st.source, rec.id)] = rec]
                   ELSE st.source]

\* _createOrUpdate on one record of the batch, st = [live, source].
CreateOrUpdate(st, rec) ==
    IF MapGet(st.live, rec.id) # <<>>
    THEN UpdateSource(st, rec)
    ELSE LET doc == createDocument(st.live, rec)
         IN [live |-> MapSet(st.live, rec.id, doc),
             source |-> SourceSet(st.source, rec.id, doc)]

RECURSIVE UpdateFrom(_, _, _)
UpdateFrom(st, changes, i) ==
    IF i > Len(changes) THEN st
    ELSE UpdateFrom(CreateOrUpdate(st, changes[i]), changes, i + 1)

\* Batches of records that construct.
Batches == UNION {[1..n -> [id : Ids, data : ValidData]] : n \in 0..MaxBatch}

Update(changes) ==
    LET st == UpdateFrom([live |-> live, source |-> source], changes, 1)
    IN /\ initialized
       /\ live' = st.live
       /\ source' = st.source
       /\ ret' = Ret("update")
       /\ UNCHANGED <<invalidDocumentIds, initialized>>

----------------------------------------------------------------------------
\* get / getInvalid / toObject

\* The temporary instance getInvalid constructs from the source record.
TemporaryDocument(id) ==
    [id |-> id, gen |-> 2,
     data |-> IF id \in Keys(source) THEN source[IndexOf(source, id)].data ELSE "none"]

\* getInvalid that never throws.
GetInvalidResultLenient(id, strict) ==
    IF id \notin invalidDocumentIds
    THEN [threw |-> FALSE, val |-> <<>>]
    ELSE [threw |-> FALSE, val |-> <<TemporaryDocument(id)>>]

\* getInvalid(id, {strict})
GetInvalidResult(id, strict) ==
    IF id \notin invalidDocumentIds
    THEN [threw |-> strict, val |-> <<>>]
    ELSE [threw |-> FALSE, val |-> <<TemporaryDocument(id)>>]

\* get(id, {strict, invalid})
GetResult(id, strict, invalid) ==
    LET found == MapGet(live, id)
        result == IF found = <<>> /\ GetAllowInvalid(invalid)
                  THEN GetInvalidResult(id, FALSE).val ELSE found
    IN IF result = <<>> /\ GetStrict(strict)
       THEN [threw |-> TRUE, val |-> <<>>]
       ELSE [threw |-> FALSE, val |-> result]

\* The records recomputed from the live Documents, in iteration order.
LiveRecords == [i \in DOMAIN live |-> ToRecord(live[i])]

\* toObject(source): the records of the source array, or those recomputed
\* from the live Documents.
ToObjectResult(opt) ==
    IF ToObjectFromSource(opt) THEN source ELSE LiveRecords

Get(id, strict, invalid) ==
    /\ initialized
    /\ ret' = [Ret("get") EXCEPT !.threw = GetResult(id, strict, invalid).threw,
                                 !.val = GetResult(id, strict, invalid).val]
    /\ UNCHANGED <<source, live, invalidDocumentIds, initialized>>

GetInvalid(id, strict) ==
    /\ initialized
    /\ ret' = [Ret("getInvalid") EXCEPT !.threw = GetInvalidResult(id, strict).threw,
                                        !.val = GetInvalidResult(id, strict).val]
    /\ UNCHANGED <<source, live, invalidDocumentIds, initialized>>

ToObject(opt) ==
    /\ initialized
    /\ ret' = [Ret("toObject") EXCEPT !.val = ToObjectResult(opt)]
    /\ UNCHANGED <<source, live, invalidDocumentIds, initialized>>

----------------------------------------------------------------------------
\* EmbeddedEntity: setFlag / getFlag / unsetFlag

\* A setFlag that stores null as the value of the flag.
FlagsSetKeepNull(f, scope, key, value) == [f EXCEPT ![<<scope, key>>] = value]

\* A setFlag that replaces the flags of the scope.
FlagsSetScope(f, scope, key, value) ==
    [p \in FlagPairs |->
        IF p = <<scope, key>> THEN (IF value = Null THEN Undefined ELSE value)
        ELSE IF p[1] = scope THEN Undefined ELSE f[p]]

\* The flags after unsetFlag(scope, key): the flag is removed.
FlagsUnset(f, scope, key) == [f EXCEPT ![<<scope, key>>] = Undefined]

\* The flags after setFlag(scope, key, value): the value is assigned to the
\* flag; setting a flag value to null will delete that flag.
FlagsSet(f, scope, key, value) ==
    IF value = Null THEN [f EXCEPT ![<<scope, key>>] = Undefined]
    ELSE [f EXCEPT ![<<scope, key>>] = value]

\* What getFlag(scope, key) returns: the flag value.
FlagsGet(f, scope, key) == f[<<scope, key>>]

SetFlag(scope, key, value) ==
    /\ flags' = FlagsSet(flags, scope, key, value)
    /\ flagRet' = [op |-> "setFlag", scope |-> scope, key |-> key, val |-> value]

GetFlag(scope, key) ==
    /\ flagRet' = [op |-> "getFlag", scope |-> scope, key |-> key,
                   val |-> FlagsGet(flags, scope, key)]
    /\ UNCHANGED flags

UnsetFlag(scope, key) ==
    /\ flags' = FlagsUnset(flags, scope, key)
    /\ flagRet' = [op |-> "unsetFlag", scope |-> scope, key |-> key, val |-> Undefined]

----------------------------------------------------------------------------
\* AVMaster: _onAudioLevel / _resetSpeakingHistory

\* A detection that needs every level of the history above the threshold.
IsSpeakingAll(histories) ==
    /\ histories # <<>>
    /\ \A i \in DOMAIN histories : histories[i] > SpeakingThreshold

\* A detection that counts a level at the threshold.
IsSpeakingAtThreshold(histories) ==
    \E i \in DOMAIN histories : histories[i] >= SpeakingThreshold

\* The user is considered speaking if they are above the decibel threshold
\* in any of the history values.
IsSpeaking(histories) ==
    \E i \in DOMAIN histories : histories[i] > SpeakingThreshold

\* A history that keeps one level fewer.
PushLevelShort(histories, dbLevel) ==
    LET all == Append(histories, dbLevel)
    IN IF Len(all) > HistoryLength - 1
       THEN SubSeq(all, Len(all) - HistoryLength + 2, Len(all)) ELSE all

\* The history with one more level, cut to the last HistoryLength.
PushLevel(histories, dbLevel) ==
    LET all == Append(histories, dbLevel)
    IN IF Len(all) > HistoryLength THEN Tail(all) ELSE all

\* _onAudioLevel(userId, dbLevel)
OnAudioLevel(userId, dbLevel) ==
    LET histories == PushLevel(speakingData[userId].volumeHistories, dbLevel)
        isSpeaking == IsSpeaking(histories)
    IN /\ speakingData' = [speakingData EXCEPT ![userId] =
                               [known |-> TRUE, speaking |-> isSpeaking,
                                volumeHistories |-> histories]]
       /\ avRet' = [op |-> "onAudioLevel", user |-> userId,
                    notified |-> isSpeaking # speakingData[userId].speaking]

\* _resetSpeakingHistory(userId)
ResetSpeakingHistory(userId) ==
    /\ speakingData' = [speakingData EXCEPT ![userId] =
                            IF @.known THEN [@ EXCEPT !.speaking = FALSE,
                                                      !.volumeHistories = <<>>]
                            ELSE @]
    /\ avRet' = [op |-> "resetSpeakingHistory", user |-> userId,
                 notified |-> speakingData[userId].speaking]

----------------------------------------------------------------------------
\* Card: currentFace / showFace / flip

\* showFace: whether the face of the card is displayed.
showFace(f) == f # Back

\* currentFace: the face displayed, <<>> (null) while the back is.
currentFace(f) == IF showFace(f) THEN <<f>> ELSE <<>>

\* The argument of flip: left out, null, or the index of a face of the card.
FlipArgs(n) ==
    {[kind |-> "omitted", index |-> Back], [kind |-> "null", index |-> Back]}
        \cup {[kind |-> "face", index |-> i] : i \in 0..(n - 1)}

\* A flip that goes on to the next face while there is one.
FlipTargetsCycle(n, f, arg) ==
    IF arg.kind = "face" THEN {arg.index}
    ELSE IF showFace(f) /\ f < n - 1 THEN {f + 1}
    ELSE IF showFace(f) THEN {Back} ELSE {0}

\* A flip that ignores the face requested.
FlipTargetsToggle(n, f, arg) == IF showFace(f) THEN {Back} ELSE {0}

\* The faces flip may leave displayed.  A requested face is displayed;
\* otherwise a card that displays a face goes to the back and a card that
\* displays the back goes to the first face.  Whether null requests the back
\* or requests nothing is not declared: either may be.
FlipTargets(n, f, arg) ==
    IF arg.kind = "face" THEN {arg.index}
    ELSE IF arg.kind = "null" THEN {Back, IF showFace(f) THEN Back ELSE 0}
    ELSE IF showFace(f) THEN {Back} ELSE {0}

\* The log with one more call, cut to the last two.
Logged(log, entry) ==
    IF Len(log) < 2 THEN Append(log, entry) ELSE <<log[2], entry>>

\* flip(face)
Flip(arg) ==
    /\ \E to \in FlipTargets(cardFaces, face, arg) :
           /\ face' = to
           /\ flipLog' = Logged(flipLog, [arg |-> arg, from |-> face, to |-> to])
    /\ UNCHANGED cardFaces

----------------------------------------------------------------------------
Next ==
    \/ \E strict \in BOOLEAN : Initialize(strict) /\ UNCHANGED otherVars
    \/ \E id \in Ids, strict \in BOOLEAN : HandleInvalidDocument(id, strict) /\ UNCHANGED otherVars
    \/ \E key \in Ids, data \in ValidData, opt \in Opt : Set(key, data, opt) /\ UNCHANGED otherVars
    \/ \E key \in Ids, opt \in Opt : Delete(key, opt) /\ UNCHANGED otherVars
    \/ \E changes \in Batches : Update(changes) /\ UNCHANGED otherVars
    \/ \E id \in Ids, strict \in Opt, invalid \in Opt : Get(id, strict, invalid) /\ UNCHANGED otherVars
    \/ \E id \in Ids, strict \in BOOLEAN : GetInvalid(id, strict) /\ UNCHANGED otherVars
    \/ \E opt \in Opt : ToObject(opt) /\ UNCHANGED otherVars

Spec == Init /\ [][Next]_vars

\* initialize and _handleInvalidDocument alone.
NextInit ==
    \/ \E strict \in BOOLEAN : Initialize(strict) /\ UNCHANGED otherVars
    \/ \E id \in Ids, strict \in BOOLEAN : HandleInvalidDocument(id, strict) /\ UNCHANGED otherVars

SpecInit == Init /\ [][NextInit]_vars

\* set and delete in the default mode.
NextSync ==
    \/ \E strict \in BOOLEAN : Initialize(strict) /\ UNCHANGED otherVars
    \/ \E key \in Ids, data \in ValidData, opt \in {"omitted", "true"} : Set(key, data, opt) /\ UNCHANGED otherVars
    \/ \E key \in Ids, opt \in {"omitted", "true"} : Delete(key, opt) /\ UNCHANGED otherVars

SpecSync == Init /\ [][NextSync]_vars

\* Every call that writes the source array (set and delete in the default
\* mode, update), and toObject.
NextPersist ==
    \/ \E strict \in BOOLEAN : Initialize(strict) /\ UNCHANGED otherVars
    \/ \E key \in Ids, data \in ValidData, opt \in {"omitted", "true"} : Set(key, data, opt) /\ UNCHANGED otherVars
    \/ \E key \in Ids, opt \in {"omitted", "true"} : Delete(key, opt) /\ UNCHANGED otherVars
    \/ \E changes \in Batches : Update(changes) /\ UNCHANGED otherVars
    \/ \E opt \in Opt : ToObject(opt) /\ UNCHANGED otherVars

SpecPersist == Init /\ [][NextPersist]_vars

\* The retrievals, over the collections set and delete build.
NextQuery ==
    \/ \E strict \in BOOLEAN : Initialize(strict) /\ UNCHANGED otherVars
    \/ \E key \in Ids, data \in ValidData, opt \in {"omitted", "true"} : Set(key, data, opt) /\ UNCHANGED otherVars
    \/ \E key \in Ids, opt \in {"omitted", "true"} : Delete(key, opt) /\ UNCHANGED otherVars
    \/ \E id \in Ids, strict \in Opt, invalid \in Opt : Get(id, strict, invalid) /\ UNCHANGED otherVars
    \/ \E id \in Ids, strict \in BOOLEAN : GetInvalid(id, strict) /\ UNCHANGED otherVars

SpecQuery == Init /\ [][NextQuery]_vars

\* delete in every mode, over the collections a default-mode set builds.
NextDelete ==
    \/ \E strict \in BOOLEAN : Initialize(strict) /\ UNCHANGED otherVars
    \/ \E key \in Ids, data \in ValidData, opt \in {"omitted", "true"} : Set(key, data, opt) /\ UNCHANGED otherVars
    \/ \E key \in Ids, opt \in Opt : Delete(key, opt) /\ UNCHANGED otherVars

SpecDelete == Init /\ [][NextDelete]_vars

\* set and delete in every mode, over a source array of valid records.
InitValid == Init /\ \A i \in DOMAIN source : Validates(source[i])

NextTransient ==
    \/ \E strict \in BOOLEAN : Initialize(strict) /\ UNCHANGED otherVars
    \/ \E key \in Ids, data \in ValidData, opt \in Opt : Set(key, data, opt) /\ UNCHANGED otherVars
    \/ \E key \in Ids, opt \in Opt : Delete(key, opt) /\ UNCHANGED otherVars

SpecTransient == InitValid /\ [][NextTransient]_vars

\* A card of any number of faces, displaying any of them or its back; the
\* embedded collection stays as constructed.
InitCard ==
    /\ CollectionAtRest
    /\ FlagsAtRest
    /\ AVAtRest
    /\ cardFaces \in 1..MaxFaces
    /\ face \in {Back} \cup 0..(cardFaces - 1)
    /\ flipLog = <<>>

NextCard ==
    \/ \E arg \in FlipArgs(cardFaces) :
           Flip(arg) /\ UNCHANGED <<collectionVars, flagVars, avVars>>

SpecCard == InitCard /\ [][NextCard]_vars

\* The flag calls on one embedded entity; the collection and the card stay
\* as they are.
InitFlags ==
    /\ CollectionAtRest
    /\ CardAtRest
    /\ AVAtRest
    /\ FlagsAtRest

NextFlags ==
    \/ \E scope \in FlagScopes, key \in FlagKeys, value \in FlagValues \cup {Null} :
           SetFlag(scope, key, value) /\ UNCHANGED <<collectionVars, cardVars, avVars>>
    \/ \E scope \in FlagScopes, key \in FlagKeys :
           GetFlag(scope, key) /\ UNCHANGED <<collectionVars, cardVars, avVars>>
    \/ \E scope \in FlagScopes, key \in FlagKeys :
           UnsetFlag(scope, key) /\ UNCHANGED <<collectionVars, cardVars, avVars>>

SpecFlags == InitFlags /\ [][NextFlags]_vars

\* The audio levels reported for the users of a conference, and the resets
\* of their histories.
InitAV ==
    /\ CollectionAtRest
    /\ CardAtRest
    /\ FlagsAtRest
    /\ AVAtRest

NextAV ==
    \/ \E userId \in AVUsers, dbLevel \in Levels :
           OnAudioLevel(userId, dbLevel) /\ UNCHANGED <<collectionVars, cardVars, flagVars>>
    \/ \E userId \in AVUsers :
           ResetSpeakingHistory(userId) /\ UNCHANGED <<collectionVars, cardVars, flagVars>>

SpecAV == InitAV /\ [][NextAV]_vars

----------------------------------------------------------------------------
\* Properties

\* C1: in a collection initialized from a source array of valid records, after
\* any sequence of set and delete calls in the default mode, the live map and
\* the source array hold the same identifiers, and the record stored for an
\* identifier is the plain record of the live Document under it.
C1_SourceMirrorsLive ==
    (initialized /\ invalidDocumentIds = {}) =>
        /\ Keys(live) = Keys(source)
        /\ \A k \in Keys(live) :
               source[IndexOf(source, k)] = ToRecord(live[IndexOf(live, k)])

\* A default-mode set has replaced the first of two Documents.
C1_Witness ==
    /\ initialized /\ invalidDocumentIds = {}
    /\ ret.op = "set"
    /\ Len(live) = 2 /\ live[1].gen = 1
    /\ Len(source) = 2

\* C2: initialize puts every record that constructs into the live map, in the
\* order of the array, records the identifier of every record that fails in
\* invalidDocumentIds and keeps it out of the live map; a failing record does
\* not stop the records after it from being initialized.
C2_InitializeIsolatesInvalid ==
    [][\A strict \in BOOLEAN :
         (~initialized /\ Initialize(strict)) =>
            /\ LiveRecords' = SelectSeq(source, Validates)
            /\ invalidDocumentIds' =
                   {source[i].id : i \in {j \in DOMAIN source : ~Validates(source[j])}}
            /\ invalidDocumentIds' \cap Keys(live') = {}
            /\ \A i, j \in DOMAIN source :
                   (i < j /\ ~Validates(source[i]) /\ Validates(source[j]))
                       => source[j].id \in Keys(live')
            /\ initialized']_vars

\* initialize has met a failing record first and a valid one after it.
C2_Witness ==
    /\ initialized /\ ret.op = "initialize"
    /\ Len(source) = 2
    /\ ~Validates(source[1]) /\ Validates(source[2])
    /\ Keys(live) = {source[2].id}
    /\ invalidDocumentIds = {source[1].id}

GetContract(id, strict, invalid) ==
    LET r == GetResult(id, strict, invalid)
    IN /\ id \in Keys(live) =>
              (~r.threw /\ r.val = <<live[IndexOf(live, id)]>>)
       /\ (id \notin Keys(live) /\ strict # "true" /\ invalid # "true") =>
              (~r.threw /\ r.val = <<>>)
       /\ (id \notin Keys(live) /\ strict = "true" /\ invalid # "true") =>
              r.threw
       /\ (id \notin Keys(live) /\ invalid = "true" /\ id \in invalidDocumentIds) =>
              /\ ~r.threw
              /\ Len(r.val) = 1
              /\ r.val[1].id = id
              /\ r.val[1] \notin {live[i] : i \in DOMAIN live}
              /\ id \in Keys(source) =>
                     r.val[1].data = source[IndexOf(source, id)].data

\* C4: get returns the live Document of an identifier the live map holds,
\* whatever the options; for an identifier the live map does not hold it
\* returns undefined without throwing under the default options, throws under
\* strict (invalid not requested), and under invalid returns the temporary
\* instance of an identifier of invalidDocumentIds.  get changes neither the
\* live map, nor the source array, nor invalidDocumentIds, and what a call
\* returned is what get owes for some identifier and options.
C4_GetByIdentifier ==
    /\ [](initialized =>
            /\ \A id \in Ids, strict \in Opt, invalid \in Opt :
                   GetContract(id, strict, invalid)
            /\ ret.op = "get" =>
                   \E id \in Ids, strict \in Opt, invalid \in Opt :
                       /\ ret.threw = GetResult(id, strict, invalid).threw
                       /\ ret.val = GetResult(id, strict, invalid).val)
    /\ [][ret'.op = "get" =>
            /\ live' = live
            /\ source' = source
            /\ invalidDocumentIds' = invalidDocumentIds]_vars

\* get has returned the temporary instance of an invalid identifier, beside a
\* live Document.
C4_Witness ==
    /\ ret.op = "get" /\ ~ret.threw
    /\ Len(ret.val) = 1
    /\ ret.val[1].id \in invalidDocumentIds
    /\ ret.val[1].id \notin Keys(live)
    /\ live # <<>>

\* No identifier of invalidDocumentIds is yielded by iteration.
InvalidNotIterated == invalidDocumentIds \cap Keys(live) = {}

\* getInvalid returns a temporary instance for an identifier of
\* invalidDocumentIds, throws under strict for any other identifier, and does
\* not throw when strict is false.
GetInvalidContract ==
    \A id \in Ids, strict \in BOOLEAN :
        GetInvalid(id, strict) =>
            /\ id \in invalidDocumentIds =>
                   /\ ~ret'.threw
                   /\ Len(ret'.val) = 1
                   /\ ret'.val[1].id = id
                   /\ ret'.val[1] \notin {live[i] : i \in DOMAIN live}
            /\ (id \notin invalidDocumentIds /\ strict) => ret'.threw
            /\ ~strict => ~ret'.threw
            /\ (id \notin invalidDocumentIds /\ ~strict) => ret'.val = <<>>

DeleteReturnsAndRemoves(key, opt) ==
    /\ ret'.ok = (key \in Keys(live))
    /\ key \notin Keys(live')
    /\ opt # "false" => key \notin Keys(source')

C7_ModifySourceFrame ==
    [][/\ ret'.op = "set" =>
            \A i \in DOMAIN live' :
                live' = MapSet(live, live'[i].id, live'[i]) =>
                    \A opt \in Opt :
                        Set(live'[i].id, live'[i].data, opt) =>
                           /\ MapGet(live', live'[i].id) = <<live'[i]>>
                           /\ opt = "false" => source' = source
                           /\ opt # "false" =>
                                  /\ live'[i].id \in Keys(source')
                                  /\ source'[IndexOf(source', live'[i].id)] = ToRecord(live'[i])
       /\ ret'.op = "delete" =>
            \A key \in Ids \ Keys(live'), opt \in Opt :
                Delete(key, opt) =>
                   /\ key \notin Keys(live')
                   /\ opt = "false" => source' = source
                   /\ opt # "false" => key \notin Keys(source')]_vars

\* A non-persisting set has put into the live map a Document whose record the
\* source array does not hold.
C7_Witness ==
    /\ ret.op = "set"
    /\ \E i \in DOMAIN live :
           /\ live[i].id \in Keys(source)
           /\ source[IndexOf(source, live[i].id)] # ToRecord(live[i])
    /\ \E i \in DOMAIN live : live[i].id \notin Keys(source)

\* The identifiers of a Map in iteration order, and those of them in a set.
IdsOf(m) == [i \in DOMAIN m |-> m[i].id]

Restrict(m, S) == SelectSeq(IdsOf(m), LAMBDA x : x \in S)

\* Iteration order of the live map across one call: the identifiers that stay
\* keep their relative order, and a new identifier comes after all of them.
InsertionOrderKept ==
    LET kept == Keys(live) \cap Keys(live')
    IN /\ Restrict(live, kept) = Restrict(live', kept)
       /\ SubSeq(IdsOf(live'), 1, Cardinality(kept)) = Restrict(live', kept)

\* A set leaves every record of the source array at its position: it changes
\* in place the record of one identifier at most, to the record of the Document
\* the live map now holds for it, or adds one record of a new identifier last.
SetWritesInPlace ==
    ret'.op = "set" =>
        /\ SubSeq(IdsOf(source'), 1, Len(source)) = IdsOf(source)
        /\ Len(source') \in {Len(source), Len(source) + 1}
        /\ Cardinality({i \in DOMAIN source : source'[i] # source[i]}) <= 1
        /\ \A i \in DOMAIN source' :
               (i \notin DOMAIN source \/ source'[i] # source[i]) =>
                   source'[i] \in {ToRecord(live'[j]) : j \in DOMAIN live'}

\* C9: no identifier occurs twice in the live map or in the source array;
\* iteration yields the identifiers in the order of their insertion; a set
\* that replaces an identifier writes its record at the position the
\* identifier already has in the source array.
C9_UniqueKeysInsertionOrder ==
    /\ [](Unique(live) /\ Unique(source))
    /\ [][InsertionOrderKept /\ SetWritesInPlace]_vars

\* A set has replaced the first of two Documents in place, in the live map
\* and in the source array.
C9_Witness ==
    /\ ret.op = "set"
    /\ Len(live) = 2 /\ live[1].gen = 1
    /\ Len(source) = 2 /\ source[1] = ToRecord(live[1])
    /\ source[2] = ToRecord(live[2])
\* The identifiers of a batch, and the data the batch gives last for one.
BatchIds(changes) == {changes[i].id : i \in DOMAIN changes}

LastData(changes, id) ==
    LET last == CHOOSE i \in DOMAIN changes :
                    /\ changes[i].id = id
                    /\ \A j \in DOMAIN changes : changes[j].id = id => j <= i
    IN changes[last].data

\* C6: update creates a Document for an identifier of the batch the collection
\* does not hold, updates in place (same instance, same position) the Document
\* of an identifier it holds, and leaves the Document, the record and the
\* position of every identifier outside the batch as they are; no identifier
\* leaves the live map or the source array.
C6_UpdateReconciles ==
    [][\A changes \in Batches :
         Update(changes) =>
            /\ \A id \in BatchIds(changes) :
                   /\ id \in Keys(live')
                   /\ live'[IndexOf(live', id)].data = LastData(changes, id)
                   /\ id \in Keys(source')
                   /\ source'[IndexOf(source', id)] = [id |-> id, data |-> LastData(changes, id)]
            /\ \A id \in BatchIds(changes) \cap Keys(live) :
                   /\ IndexOf(live', id) = IndexOf(live, id)
                   /\ live'[IndexOf(live', id)].gen = live[IndexOf(live, id)].gen
            /\ \A id \in Keys(live) \ BatchIds(changes) :
                   /\ id \in Keys(live')
                   /\ IndexOf(live', id) = IndexOf(live, id)
                   /\ live'[IndexOf(live', id)] = live[IndexOf(live, id)]
            /\ \A id \in Keys(source) \ BatchIds(changes) :
                   /\ id \in Keys(source')
                   /\ IndexOf(source', id) = IndexOf(source, id)
                   /\ source'[IndexOf(source', id)] = source[IndexOf(source, id)]
            /\ \A id \in Keys(source) \cap BatchIds(changes) :
                   IndexOf(source', id) = IndexOf(source, id)
            /\ Keys(live) \subseteq Keys(live')
            /\ Keys(source) \subseteq Keys(source')]_vars

\* An update has changed the first Document in place and created a second.
C6_Witness ==
    /\ ret.op = "update"
    /\ Len(live) = 2 /\ Len(source) = 2
    /\ live[1].gen = 1 /\ live[1].data = "y"
    /\ live[2].gen = 0
    /\ source = LiveRecords

\* What toObject returns with source true (or omitted) and with source false.
SerializeAgrees ==
    /\ ToObjectResult("omitted") = source
    /\ ToObjectResult("true") = source
    /\ ToObjectResult("false") = [i \in DOMAIN live |-> [id |-> live[i].id, data |-> live[i].data]]
    /\ ToObjectResult("true") = ToObjectResult("false")
    /\ ret.op = "toObject" => (ret.val = source /\ ret.val = ToObjectResult("false"))

FlipContract ==
    \A arg \in FlipArgs(cardFaces) :
        Flip(arg) =>
            /\ (arg.kind = "omitted" /\ showFace(face)) => ~showFace(face')
            /\ (arg.kind = "omitted" /\ ~showFace(face)) => currentFace(face') = <<0>>
            /\ arg.kind = "face" => currentFace(face') = <<arg.index>>

\* Two flips without an argument, the first of them made on the back.
TwoPlainFlipsFromBack ==
    /\ Len(flipLog) = 2
    /\ flipLog[1].arg.kind = "omitted" /\ flipLog[2].arg.kind = "omitted"
    /\ flipLog[1].from = Back

\* C11: flip without an argument takes a card that displays a face to the
\* back and a card that displays the back to the first face; flip with a face
\* requested leaves that face displayed; after two flips without an argument
\* that start on the back the card displays the back again.
C11_FlipToggles ==
    /\ [](TwoPlainFlipsFromBack => ~showFace(face))
    /\ [][FlipContract]_vars

\* A card of several faces was flipped twice without an argument from the
\* back: to the first face, then to the back.
C11_Witness ==
    /\ TwoPlainFlipsFromBack
    /\ cardFaces > 1
    /\ flipLog[1].to = 0 /\ flipLog[2].from = 0
    /\ face = Back
\* The flags under every other scope or key are as they were.
OtherFlagsKept(scope, key) ==
    \A p \in FlagPairs \ {<<scope, key>>} : flags'[p] = flags[p]

\* C12: after setFlag(scope, key, value) with a value that is not null,
\* getFlag(scope, key) returns the value; setFlag(scope, key, null) leaves the
\* flags that unsetFlag(scope, key) leaves, the flag deleted; setFlag and
\* unsetFlag change no flag under another scope or key, and getFlag returns
\* the stored value and changes none.
C12_FlagsSetGetUnset ==
    [][\A scope \in FlagScopes, key \in FlagKeys :
         /\ \A value \in FlagValues \cup {Null} :
                SetFlag(scope, key, value) =>
                   /\ value # Null => FlagsGet(flags', scope, key) = value
                   /\ value = Null =>
                          /\ flags' = FlagsUnset(flags, scope, key)
                          /\ FlagsGet(flags', scope, key) = Undefined
                   /\ OtherFlagsKept(scope, key)
         /\ UnsetFlag(scope, key) =>
                /\ FlagsGet(flags', scope, key) = Undefined
                /\ OtherFlagsKept(scope, key)
         /\ GetFlag(scope, key) =>
                /\ flagRet'.val = flags[<<scope, key>>]
                /\ flags' = flags]_vars

\* setFlag with null has deleted a flag while the other key of its scope and
\* a key of the other scope keep their values.
C12_Witness ==
    /\ flagRet = [op |-> "setFlag", scope |-> "core", key |-> "k1", val |-> Null]
    /\ flags[<<"core", "k1">>] = Undefined
    /\ flags[<<"core", "k2">>] = "a"
    /\ flags[<<"world", "k1">>] = "b"
\* Whether an audio level is above the decibel threshold.
Above(dbLevel) == dbLevel > SpeakingThreshold

\* The last n elements of a sequence, all of it when it is shorter.
LastOf(seq, n) == IF Len(seq) <= n THEN seq ELSE SubSeq(seq, Len(seq) - n + 1, Len(seq))

\* A user is speaking exactly when one of the levels kept for them is above
\* the threshold, and at most 4 levels are kept.
SpeakingIffRecentLevelAbove ==
    \A u \in AVUsers :
        /\ Len(speakingData[u].volumeHistories) <= 4
        /\ speakingData[u].speaking <=>
               \E i \in DOMAIN speakingData[u].volumeHistories :
                   Above(speakingData[u].volumeHistories[i])

\* One reported level: the levels kept are the last 4 reported, a level above
\* the threshold marks the user speaking at once, and a speaking user is
\* marked not speaking only when the last 4 levels are all not above it.
AudioLevelContract ==
    \A u \in AVUsers, dbLevel \in Levels :
        OnAudioLevel(u, dbLevel) =>
            /\ speakingData'[u].volumeHistories =
                   LastOf(Append(speakingData[u].volumeHistories, dbLevel), 4)
            /\ Above(dbLevel) => speakingData'[u].speaking
            /\ (speakingData[u].speaking /\ ~speakingData'[u].speaking) =>
                   /\ Len(speakingData'[u].volumeHistories) = 4
                   /\ \A i \in 1..4 : ~Above(speakingData'[u].volumeHistories[i])
            /\ \A v \in AVUsers \ {u} : speakingData'[v] = speakingData[v]

\* One reset: the history is empty and the user is not speaking.
ResetContract ==
    \A u \in AVUsers :
        ResetSpeakingHistory(u) =>
            /\ speakingData'[u].volumeHistories = <<>>
            /\ ~speakingData'[u].speaking
            /\ \A v \in AVUsers \ {u} : speakingData'[v] = speakingData[v]

\* C13: a user is considered speaking exactly when at least one of the last
\* 4 audio levels reported for them is above the decibel threshold: one level
\* above it marks them speaking at once, they are marked not speaking only
\* after 4 levels in a row that are not above it, and _resetSpeakingHistory
\* empties the history and marks a speaking user as not speaking.
C13_SpeakingFromLastFourLevels ==
    /\ []SpeakingIffRecentLevelAbove
    /\ [][AudioLevelContract /\ ResetContract]_vars

\* The fourth level in a row at or below the threshold has just marked a
\* speaking user as not speaking, while the other user is speaking.
C13_Witness ==
    /\ avRet = [op |-> "onAudioLevel", user |-> "u1", notified |-> TRUE]
    /\ ~speakingData["u1"].speaking
    /\ Len(speakingData["u1"].volumeHistories) = 4
    /\ speakingData["u1"].volumeHistories[4] = SpeakingThreshold
    /\ speakingData["u2"].speaking
\* What building the live map from the source array would give.
BuiltFromSource == SelectSeq(source, Validates)

\* An initialize call on an initialized collection leaves the live map, the
\* invalid identifiers and the source array as they are.
RepeatedInitializeKeeps ==
    \A strict \in BOOLEAN :
        (initialized /\ Initialize(strict)) =>
            /\ live' = live
            /\ invalidDocumentIds' = invalidDocumentIds
            /\ source' = source

\* C14: _initialized is false in a collection no call was made on, is true
\* after every initialize call and never goes back to false; an initialize
\* call on an initialized collection leaves the live map and the invalid
\* identifiers as they are, and no identifier is twice in the live map.
C14_InitializeOnce ==
    /\ [](ret = NoRet => ~initialized)
    /\ [](Unique(live))
    /\ [][/\ initialized => initialized'
          /\ \A strict \in BOOLEAN : Initialize(strict) => initialized'
          /\ RepeatedInitializeKeeps]_vars

\* initialize was called on an initialized collection whose live map is no
\* longer what its source array builds, and which holds an invalid record.
C14_Witness ==
    /\ ret.op = "initialize"
    /\ initialized
    /\ invalidDocumentIds # {}
    /\ LiveRecords # BuiltFromSource
    /\ live # <<>>
====
